---- MODULE Spec2Model ----
(***************************************************************************)
(* DRM framebuffer pixel extractor (src/km_new/kernel.c): the capture      *)
(* store (captured_fbs, capture_count, current_index, capture_mutex), the  *)
(* capture pipeline (capture_fb_pixels, extract_gem_pixels,                *)
(* detect_intel_tiling) and the two /proc query handlers                   *)
(* (drm_fb_proc_show, drm_fb_raw_read), plus module exit.                  *)
(*                                                                         *)
(* Four specifications share the handler bodies below:                     *)
(*   Spec          every handler is one atomic step (the handlers are      *)
(*                 serialised by capture_mutex), with the full input       *)
(*                 variety;                                                *)
(*   ConcSpec      the handlers are split at their lock, free, allocate,   *)
(*                 extract and commit points and interleaved across        *)
(*                 threads;                                                *)
(*   FairConcSpec  the same steps for one pipeline thread, the reader, the *)
(*                 lister and teardown, under fairness;                    *)
(*   UnitSpec      the pure functions called on their own.                 *)
(***************************************************************************)
EXTENDS Integers, Sequences, FiniteSets, TLC

(***************************************************************************)
(* Program constants.                                                      *)
(***************************************************************************)
MAX_FB_CAPTURE == 5
MAX_CAPTURE_SIZE == 3840 * 1080 * 4
INTEL_TILE_X_WIDTH == 512
INTEL_TILE_X_HEIGHT == 8
INTEL_TILE_Y_WIDTH == 128
INTEL_TILE_Y_HEIGHT == 32
PAGE_SIZE == 4096
ENOMEM == 12
EINVAL == 22
EFAULT == 14
ENODATA == 61

INTEL_TILING_NONE == "NONE"
INTEL_TILING_X == "X"
INTEL_TILING_Y == "Y"
INTEL_TILING_YF == "YF"

\* fb->modifier values: 0 (none), the three i915 modifiers, any other value.
MOD_NONE == "0"
I915_FORMAT_MOD_X_TILED == "I915_X_TILED"
I915_FORMAT_MOD_Y_TILED == "I915_Y_TILED"
I915_FORMAT_MOD_Yf_TILED == "I915_Yf_TILED"
MOD_OTHER == "OTHER"

(***************************************************************************)
(* Bounds of the model.                                                    *)
(***************************************************************************)
MaxRuns == 6         \* capture_fb_pixels calls in Spec
MaxAllocFail == 1    \* vmalloc failures injected in Spec
MaxConcRuns == 2     \* capture_fb_pixels calls in ConcSpec
MaxFairRuns == 1     \* capture_fb_pixels calls in FairConcSpec

(***************************************************************************)
(* uint32_t arithmetic.  A uint32_t is a pair <<hi, lo>> of 16-bit limbs,  *)
(* so that products wrap modulo 2^32 exactly as in C.                      *)
(***************************************************************************)
W16 == 65536

U32(n) == << (n \div W16) % W16, n % W16 >>

\* (x * y) mod 2^16 for 16-bit x, y, through 8-bit halves of x.
MulLo16(x, y) ==
    ( (x % 256) * y + (((x \div 256) * y) % 256) * 256 ) % W16

\* x * y for 16-bit x, y as a pair <<hi, lo>> (hi may carry up to 2^16 - 1).
MulFull16(x, y) ==
    LET t == (x \div 256) * y
        u == (x % 256) * y
        s == (t % 256) * 256 + u
    IN  << (t \div 256) + (s \div W16), s % W16 >>

\* a * b truncated to 32 bits (unsigned int multiplication).
Mul32(a, b) ==
    LET p == MulFull16(a[2], b[2])
        c == (MulLo16(a[1], b[2]) + MulLo16(a[2], b[1])) % W16
    IN  << (p[1] + c) % W16, p[2] >>

\* a > n for a uint32_t a and a constant 0 <= n < 2^31.
Gt32(a, n) ==
    \/ a[1] > n \div W16
    \/ a[1] = n \div W16 /\ a[2] > n % W16

\* The value of a uint32_t below 2^31 as an integer.
Val32(a) == a[1] * W16 + a[2]

Min(a, b) == IF a < b THEN a ELSE b

(***************************************************************************)
(* Inputs: GEM objects and framebuffer descriptors.                        *)
(*   filp           the object has a shmem file with an address space      *)
(*   size           gem_obj->size                                          *)
(*   resident       page indexes for which find_get_page returns a page    *)
(*   dma_buf        the object is an imported dma-buf with an attachment   *)
(*   dma_size       gem_obj->dma_buf->size                                 *)
(*   vmap_ok        dma_buf_vmap returns 0 with a non-null mapping         *)
(* A framebuffer's obj is FALSE when fb->obj[0] is NULL.                   *)
(***************************************************************************)
GemShmem == [filp |-> TRUE, size |-> 16, resident |-> {0},
             dma_buf |-> FALSE, dma_size |-> 0, vmap_ok |-> FALSE]
GemDmaBuf == [filp |-> FALSE, size |-> 3840 * 2160 * 4, resident |-> {},
              dma_buf |-> TRUE, dma_size |-> 3840 * 2160 * 4, vmap_ok |-> TRUE]
\* neither a shmem file nor a dma-buf
GemNone == [filp |-> FALSE, size |-> 8, resident |-> {},
            dma_buf |-> FALSE, dma_size |-> 0, vmap_ok |-> FALSE]
\* shmem file with no resident page, dma-buf whose vmap fails
GemCold == [filp |-> TRUE, size |-> 2 * PAGE_SIZE, resident |-> {},
            dma_buf |-> TRUE, dma_size |-> 2 * PAGE_SIZE, vmap_ok |-> FALSE]

\* 2x2 linear, one resident shmem page
FbSmall == [id |-> 1, width |-> 2, height |-> 2, pitch |-> 8,
            modifier |-> MOD_NONE, obj |-> TRUE, gem |-> GemShmem]
\* 3840x2160 Y-tiled dma-buf: height*width*4 exceeds MAX_CAPTURE_SIZE
FbLarge == [id |-> 2, width |-> 3840, height |-> 2160, pitch |-> 15360,
            modifier |-> I915_FORMAT_MOD_Y_TILED, obj |-> TRUE, gem |-> GemDmaBuf]
\* 65537x65536, unknown modifier, 512-aligned pitch, unreadable object:
\* height*width*4 exceeds 2^32
FbWrap == [id |-> 3, width |-> 65537, height |-> 65536, pitch |-> 262656,
           modifier |-> MOD_OTHER, obj |-> TRUE, gem |-> GemCold]
\* 2x1 linear, object with no backend
FbBare == [id |-> 5, width |-> 2, height |-> 1, pitch |-> 8,
           modifier |-> MOD_NONE, obj |-> TRUE, gem |-> GemNone]
\* a framebuffer without a GEM object
FbNoObject == [id |-> 4, width |-> 2, height |-> 2, pitch |-> 8,
               modifier |-> MOD_NONE, obj |-> FALSE, gem |-> GemCold]

Framebuffers == {FbSmall, FbLarge, FbWrap, FbBare, FbNoObject}

(***************************************************************************)
(* struct fb_pixel_data and the vmalloc'ed buffers.                        *)
(*   pixel_buffer.alloc   FALSE is the NULL pointer                        *)
(*   pixel_buffer.size    bytes allocated                                  *)
(***************************************************************************)
NullBuffer == [alloc |-> FALSE, size |-> 0]

\* memset(capture, 0, sizeof(*capture))
ZeroCapture ==
    [fb |-> 0, width |-> 0, height |-> 0, pitch |-> 0, timestamp |-> 0,
     buffer_size |-> 0, pixel_buffer |-> NullBuffer,
     valid |-> FALSE, has_pixels |-> FALSE, is_detiled |-> FALSE,
     detected_tiling |-> INTEL_TILING_NONE]

Slots == 0 .. (MAX_FB_CAPTURE - 1)

\* vmalloc(size): NULL for a zero size or when the allocator fails (ok = FALSE)
Vmalloc(size, ok) ==
    IF size > 0 /\ ok THEN [alloc |-> TRUE, size |-> size]
    ELSE NullBuffer

\* detect_intel_tiling without the guess from the pitch
detect_intel_tiling_no_heuristic(fb) ==
    IF fb.modifier = I915_FORMAT_MOD_X_TILED THEN INTEL_TILING_X
    ELSE IF fb.modifier = I915_FORMAT_MOD_Y_TILED THEN INTEL_TILING_Y
    ELSE IF fb.modifier = I915_FORMAT_MOD_Yf_TILED THEN INTEL_TILING_YF
    ELSE INTEL_TILING_NONE

\* detect_intel_tiling(fb)
detect_intel_tiling(fb) ==
    IF fb.modifier = MOD_NONE THEN INTEL_TILING_NONE
    ELSE IF fb.modifier = I915_FORMAT_MOD_X_TILED THEN INTEL_TILING_X
    ELSE IF fb.modifier = I915_FORMAT_MOD_Y_TILED THEN INTEL_TILING_Y
    ELSE IF fb.modifier = I915_FORMAT_MOD_Yf_TILED THEN INTEL_TILING_YF
    ELSE IF fb.pitch % INTEL_TILE_X_WIDTH = 0 THEN INTEL_TILING_X
    ELSE INTEL_TILING_NONE

\* convert_tiled_to_linear_ret taking INTEL_TILING_NONE for a tiling to undo
convert_tiled_to_linear_ret_any(src_present, dst_present, tiling) ==
    IF ~src_present \/ ~dst_present THEN -EINVAL ELSE 0

\* return code of convert_tiled_to_linear (the byte copy is modelled apart)
convert_tiled_to_linear_ret(src_present, dst_present, tiling) ==
    IF ~src_present \/ ~dst_present THEN -EINVAL
    ELSE IF tiling \in {INTEL_TILING_X, INTEL_TILING_Y, INTEL_TILING_YF} THEN 0
    ELSE -EINVAL

(***************************************************************************)
(* convert_tiled_to_linear on the bytes.  A byte buffer is a record        *)
(*   alloc   FALSE is the NULL pointer                                     *)
(*   size    bytes allocated                                               *)
(*   bytes   the contents, indexed from 0                                  *)
(* The geometries it is applied to below keep every product under 2^31,    *)
(* where unsigned 32-bit and integer arithmetic agree.                     *)
(***************************************************************************)
NullBytes == [alloc |-> FALSE, size |-> 0, bytes |-> [i \in {} |-> 0]]

\* a buffer holding the bytes given, a function on 0 .. size - 1
ByteBuffer(size, bytes) == [alloc |-> TRUE, size |-> size, bytes |-> bytes]

\* what a load from beyond the end of a buffer yields
OutOfRange == -1

\* buf[i]
ReadByte(buf, i) == IF i \in 0 .. (buf.size - 1) THEN buf.bytes[i] ELSE OutOfRange

\* lines 135-148: tile dimensions (the switch has returned for other values)
TileW(tiling) ==
    IF tiling = INTEL_TILING_X THEN INTEL_TILE_X_WIDTH ELSE INTEL_TILE_Y_WIDTH

TileH(tiling) ==
    IF tiling = INTEL_TILING_X THEN INTEL_TILE_X_HEIGHT ELSE INTEL_TILE_Y_HEIGHT

\* SrcOffset reading the source row by row, as if it were linear
SrcOffset_linear(x, y, pitch, tiling) == y * pitch + x * 4

\* lines 150-172: src_offset of pixel (x, y)
SrcOffset(x, y, pitch, tiling) ==
    LET tile_w == TileW(tiling)
        tile_h == TileH(tiling)
        tile_size == tile_w * tile_h
        tiles_per_row == pitch \div tile_w
        byte_x == x * 4
        tile_x == byte_x \div tile_w
        tile_y == y \div tile_h
        tile_index == tile_y * tiles_per_row + tile_x
        in_tile_x == byte_x % tile_w       \* byte_x & (tile_w - 1)
        in_tile_y == y % tile_h            \* y & (tile_h - 1)
    IN  tile_index * tile_size + in_tile_y * tile_w + in_tile_x

\* line 175: dst_offset of pixel (x, y)
DstOffset(x, y, width) == y * width * 4 + x * 4

\* InBounds without the test of the source index
InBounds_dst_only(src_index, dst_index, width, height, pitch) ==
    dst_index < height * width * 4

\* lines 179-180: the test guarding the copy of one byte
InBounds(src_index, dst_index, width, height, pitch) ==
    /\ src_index < height * pitch
    /\ dst_index < height * width * 4

\* the source and destination index of byte byte_offset of pixel (x, y)
CopyOf(x, y, byte_offset, width, pitch, tiling) ==
    [src |-> SrcOffset(x, y, pitch, tiling) + byte_offset,
     dst |-> DstOffset(x, y, width) + byte_offset]

\* lines 125-183: the loop nest stores to dst_buffer[d]: d is the destination
\* index of byte d % 4 of pixel ((d / 4) % width, d / (4 * width)), the only
\* iteration with that destination, and the store happens when the test of
\* lines 179-180 passes
StoresTo(d, width, height, pitch, tiling) ==
    /\ width > 0
    /\ d \div (4 * width) < height
    /\ LET c == CopyOf((d \div 4) % width, d \div (4 * width), d % 4,
                       width, pitch, tiling)
       IN  InBounds(c.src, c.dst, width, height, pitch)

(***************************************************************************)
(* convert_tiled_to_linear(src_buffer, dst_buffer, width, height, pitch,   *)
(* tiling): the return code, dst_buffer as the call leaves it, and the     *)
(* indexes it loaded from src_buffer (reads) and stored to dst_buffer      *)
(* (writes).  Distinct (y, x, byte_offset) have distinct destination       *)
(* indexes, so no store of the loop nest overwrites another and the byte   *)
(* at index d is decided by the one iteration whose destination is d.      *)
(***************************************************************************)
convert_tiled_to_linear(src, dst, width, height, pitch, tiling) ==
    LET ret == convert_tiled_to_linear_ret(src.alloc, dst.alloc, tiling)
        iterations == { CopyOf(x, y, b, width, pitch, tiling) :
                          x \in 0 .. (width - 1), y \in 0 .. (height - 1),
                          b \in 0 .. 3 }
        copies == { c \in iterations : InBounds(c.src, c.dst, width, height, pitch) }
        After(d) ==
            IF d < height * width * 4
            THEN LET c == CopyOf((d \div 4) % width, d \div (4 * width), d % 4,
                                 width, pitch, tiling)
                 IN  IF InBounds(c.src, c.dst, width, height, pitch)
                     THEN ReadByte(src, c.src)
                     ELSE dst.bytes[d]
            ELSE dst.bytes[d]
    IN  IF ret # 0
        THEN [ret |-> ret, dst |-> dst, reads |-> {}, writes |-> {}]
        ELSE [ret |-> 0,
              dst |-> [dst EXCEPT !.bytes = [d \in 0 .. (dst.size - 1) |-> After(d)]],
              reads |-> { c.src : c \in copies },
              writes |-> { c.dst : c \in copies }]

\* expected_size of capture_fb_pixels: a uint32_t product, then the cap
ExpectedSize(height, width) ==
    LET product == Mul32(Mul32(U32(height), U32(width)), U32(4))
    IN  IF Gt32(product, MAX_CAPTURE_SIZE) THEN MAX_CAPTURE_SIZE
        ELSE Val32(product)

\* raw_buffer_size of extract_gem_pixels: capture->height * capture->pitch
RawBufferSize(capture) == Val32(Mul32(U32(capture.height), U32(capture.pitch)))

(***************************************************************************)
(* Calls of vmalloc and vfree.  A buffer is named after the pipeline run   *)
(* that allocated it (the run's timestamp) and its use: "pixel" for        *)
(* capture->pixel_buffer, "raw" for the extractor's raw_buffer.            *)
(***************************************************************************)
PixelBufferOf(capture) == <<"pixel", capture.timestamp>>
RawBufferOf(capture) == <<"raw", capture.timestamp>>

VmallocOp(buf) == [call |-> "vmalloc", buf |-> buf]
VfreeOp(buf) == [call |-> "vfree", buf |-> buf]

\* ChunkLen copying whole pages
ChunkLen_page(target_size, copied) == PAGE_SIZE

\* line 236: to_copy = min_t(size_t, PAGE_SIZE, target_size - copied)
ChunkLen(target_size, copied) == Min(PAGE_SIZE, target_size - copied)

\* the SHMEM page loop of extract_gem_pixels: bytes copied
RECURSIVE ShmemLoop(_, _, _, _)
ShmemLoop(gem, target_size, copied, index) ==
    LET num_pages == (gem.size + PAGE_SIZE - 1) \div PAGE_SIZE
    IN  IF copied < target_size /\ index < num_pages
        THEN IF index \in gem.resident
             THEN ShmemLoop(gem, target_size,
                            copied + ChunkLen(target_size, copied), index + 1)
             ELSE ShmemLoop(gem, target_size, copied, index + 1)
        ELSE copied

\* the same loop, as the memcpy calls of line 237 in the order made:
\* memcpy(target_buffer + at, <page number page>, len)
RECURSIVE ShmemChunks(_, _, _, _)
ShmemChunks(gem, target_size, copied, index) ==
    LET num_pages == (gem.size + PAGE_SIZE - 1) \div PAGE_SIZE
        to_copy == ChunkLen(target_size, copied)
    IN  IF copied < target_size /\ index < num_pages
        THEN IF index \in gem.resident
             THEN <<[at |-> copied, page |-> index, len |-> to_copy]>>
                  \o ShmemChunks(gem, target_size, copied + to_copy, index + 1)
             ELSE ShmemChunks(gem, target_size, copied, index + 1)
        ELSE << >>

\* lines 259, 302, 307: if (raw_buffer) vfree(raw_buffer)
RawFree(raw_buffer, capture) ==
    IF raw_buffer.alloc THEN <<VfreeOp(RawBufferOf(capture))>> ELSE << >>

\* ShmemDone accepting a pass that copied nothing
ShmemDone_always(copied) == TRUE

\* line 246: the SHMEM method returns only if (copied > 0)
ShmemDone(copied) == copied > 0

(***************************************************************************)
(* extract_gem_pixels(gem_obj, capture): the return code and the capture   *)
(* as the call leaves it.  raw_ok: the scratch vmalloc succeeds;           *)
(* copied: the bytes copied out of the object by the method that returned; *)
(* tried: the methods entered, in the order they were entered; chunks: the *)
(* memcpy calls of the SHMEM loop; ops: the calls of vmalloc and vfree.    *)
(***************************************************************************)
extract_gem_pixels(gem, capture, raw_ok) ==
    LET needs_detiling == capture.detected_tiling # INTEL_TILING_NONE
        raw_buffer == IF needs_detiling THEN Vmalloc(RawBufferSize(capture), raw_ok)
                      ELSE NullBuffer
        target_size == IF needs_detiling THEN raw_buffer.size ELSE capture.buffer_size
        copied == ShmemLoop(gem, target_size, 0, 0)
        chunks == IF gem.filp THEN ShmemChunks(gem, target_size, 0, 0) ELSE << >>
        to_copy == Min(gem.dma_size, target_size)
        conv == convert_tiled_to_linear_ret(raw_buffer.alloc, capture.pixel_buffer.alloc,
                                            capture.detected_tiling)
        shmem == IF gem.filp THEN <<"shmem">> ELSE << >>
        dma == IF gem.dma_buf THEN <<"dma_buf">> ELSE << >>
        \* line 207: raw_buffer = vmalloc(raw_buffer_size)
        raw_alloc == IF raw_buffer.alloc THEN <<VmallocOp(RawBufferOf(capture))>>
                     ELSE << >>
        \* lines 259, 302, 307: if (raw_buffer) vfree(raw_buffer)
        raw_free == RawFree(raw_buffer, capture)
        \* the tail shared by both methods once n bytes were copied
        Copied(n, methods) ==
            [ret |-> IF needs_detiling THEN conv ELSE 0,
             copied |-> n,
             tried |-> methods,
             chunks |-> chunks,
             ops |-> raw_alloc \o raw_free,
             capture |-> [capture EXCEPT
                            !.is_detiled = IF needs_detiling /\ conv = 0
                                           THEN TRUE ELSE @]]
    IN  IF needs_detiling /\ ~raw_buffer.alloc
        THEN [ret |-> -ENOMEM, copied |-> 0, tried |-> << >>, chunks |-> << >>,
              ops |-> << >>, capture |-> capture]
        ELSE IF gem.filp /\ ShmemDone(copied) THEN Copied(copied, shmem)
        ELSE IF gem.dma_buf /\ gem.vmap_ok THEN Copied(to_copy, shmem \o dma)
        ELSE [ret |-> -ENODATA, copied |-> 0, tried |-> shmem \o dma,
              chunks |-> chunks, ops |-> raw_alloc \o raw_free,
              capture |-> capture]

(***************************************************************************)
(* extract_gem_pixels on the contents of the buffers.  A byte copied out   *)
(* of the object is named by its index in the object's backing memory      *)
(* (page number * PAGE_SIZE + offset in the page for the SHMEM method, the *)
(* offset in the mapping for the dma-buf method); a byte of a buffer that  *)
(* vmalloc returned and nothing stored to holds Uninitialized.             *)
(*   target   target_buffer after the method that returned (raw_buffer for *)
(*            a tiled capture, capture->pixel_buffer otherwise)            *)
(*   pixels   capture->pixel_buffer as the call leaves it                  *)
(***************************************************************************)
Uninitialized == -2

\* what vmalloc(size) returns
FreshBuffer(size) == ByteBuffer(size, [i \in 0 .. (size - 1) |-> Uninitialized])

\* target_buffer after the memcpy calls of the SHMEM loop
AfterChunks(size, chunks) ==
    ByteBuffer(size,
        [i \in 0 .. (size - 1) |->
            LET hits == {k \in 1 .. Len(chunks) :
                            /\ chunks[k].at <= i
                            /\ i < chunks[k].at + chunks[k].len}
            IN  IF hits = {} THEN Uninitialized
                ELSE LET k == CHOOSE h \in hits : \A m \in hits : m <= h
                     IN  chunks[k].page * PAGE_SIZE + (i - chunks[k].at)])

\* target_buffer after memcpy(target_buffer, map.vaddr, to_copy)
AfterMemcpy(size, to_copy) ==
    ByteBuffer(size,
        [i \in 0 .. (size - 1) |-> IF i < to_copy THEN i ELSE Uninitialized])

extract_gem_bytes(gem, capture, raw_ok) ==
    LET out == extract_gem_pixels(gem, capture, raw_ok)
        needs_detiling == capture.detected_tiling # INTEL_TILING_NONE
        target_size == IF needs_detiling THEN RawBufferSize(capture)
                       ELSE capture.buffer_size
        method == IF out.ret \in {-ENOMEM, -ENODATA} THEN "none"
                  ELSE out.tried[Len(out.tried)]
        target == IF method = "shmem" THEN AfterChunks(target_size, out.chunks)
                  ELSE IF method = "dma_buf" THEN AfterMemcpy(target_size, out.copied)
                  ELSE IF out.ret = -ENOMEM THEN NullBytes
                  ELSE FreshBuffer(target_size)
        pixels == IF needs_detiling /\ method # "none"
                  THEN convert_tiled_to_linear(target, FreshBuffer(capture.buffer_size),
                                               capture.width, capture.height,
                                               capture.pitch,
                                               capture.detected_tiling).dst
                  ELSE IF needs_detiling THEN FreshBuffer(capture.buffer_size)
                  ELSE target
    IN  [method |-> method, target |-> target, pixels |-> pixels]

(***************************************************************************)
(* capture_fb_pixels, in the pieces its critical section is made of.       *)
(***************************************************************************)
\* lines 336-356: memset, metadata, tiling detection, buffer_size
CaptureInit(fb, now) ==
    [ZeroCapture EXCEPT
       !.fb = fb.id,
       !.width = fb.width,
       !.height = fb.height,
       !.pitch = fb.pitch,
       !.timestamp = now,
       !.is_detiled = FALSE,
       !.detected_tiling = detect_intel_tiling(fb),
       !.buffer_size = ExpectedSize(fb.height, fb.width)]

\* line 359: capture->pixel_buffer = vmalloc(capture->buffer_size)
CaptureAlloc(capture, ok) ==
    [capture EXCEPT !.pixel_buffer = Vmalloc(capture.buffer_size, ok)]

\* CaptureMark announcing pixel data whatever the extractor returned
CaptureMark_pixels_always(capture, ret) ==
    [capture EXCEPT !.has_pixels = TRUE, !.valid = TRUE]

\* CaptureMark with the metadata-only branch dropping the frame
CaptureMark_invalid_on_failure(capture, ret) ==
    IF ret = 0
    THEN [capture EXCEPT !.has_pixels = TRUE, !.valid = TRUE]
    ELSE [capture EXCEPT !.has_pixels = FALSE, !.valid = FALSE]

\* lines 374-391: the flags set from the extractor's return code
CaptureMark(capture, ret) ==
    IF ret = 0
    THEN [capture EXCEPT !.has_pixels = TRUE, !.valid = TRUE]
    ELSE [capture EXCEPT !.has_pixels = FALSE, !.valid = TRUE]

\* NextIndex skipping a slot
NextIndex_skip(index) == (index + 2) % MAX_FB_CAPTURE

\* line 394
NextIndex(index) == (index + 1) % MAX_FB_CAPTURE

\* NextCount without the capacity test
NextCount_unbounded(count) == count + 1

\* lines 395-397
NextCount(count) == IF count < MAX_FB_CAPTURE THEN count + 1 ELSE count

\* FreeOld leaving the previous buffer allocated
FreeOld_never(capture) == << >>

\* lines 330-333: if (capture->pixel_buffer) vfree(capture->pixel_buffer)
FreeOld(capture) ==
    IF capture.pixel_buffer.alloc THEN <<VfreeOp(PixelBufferOf(capture))>>
    ELSE << >>

\* line 359: the vmalloc that returned a buffer
AllocNew(capture) ==
    IF capture.pixel_buffer.alloc THEN <<VmallocOp(PixelBufferOf(capture))>>
    ELSE << >>

\* capture_fb_pixels(fb, dev) on the store
\* [fbs, count, index]: the store it leaves, the value it returns, the
\* extractor's return code and byte count (ext, copied) when it was called,
\* and its calls of vmalloc and vfree in the order it made them (ops).
capture_fb_pixels(store, fb, now, ok, raw_ok) ==
    LET allocated == CaptureAlloc(CaptureInit(fb, now), ok)
        ext == extract_gem_pixels(fb.gem, allocated, raw_ok)
        free_old == FreeOld(store.fbs[store.index])
    IN  IF ~fb.obj
        THEN [store |-> store, ret |-> -EINVAL, ext |-> 0, copied |-> 0,
              ops |-> << >>]
        ELSE IF ~allocated.pixel_buffer.alloc
        THEN [store |-> [store EXCEPT !.fbs[store.index] = allocated],
              ret |-> -ENOMEM, ext |-> 0, copied |-> 0, ops |-> free_old]
        ELSE [store |-> [fbs |-> [store.fbs EXCEPT ![store.index] =
                                     CaptureMark(ext.capture, ext.ret)],
                         index |-> NextIndex(store.index),
                         count |-> NextCount(store.count)],
              ret |-> 0, ext |-> ext.ret, copied |-> ext.copied,
              ops |-> free_old \o AllocNew(allocated) \o ext.ops]

(***************************************************************************)
(* drm_fb_proc_show: the listing, as the count it prints and the slot      *)
(* indexes of the "Capture %d" blocks in the order it prints them.         *)
(***************************************************************************)
RECURSIVE ShowLoop(_, _, _)
ShowLoop(store, i, out) ==
    IF i < store.count
    THEN IF ~store.fbs[i].valid
         THEN ShowLoop(store, i + 1, out)
         ELSE ShowLoop(store, i + 1, Append(out, i))
    ELSE out

\* drm_fb_proc_show refusing to list an empty store
drm_fb_proc_show_fail_empty(store) ==
    [count |-> store.count, frames |-> ShowLoop(store, 0, << >>),
     ret |-> IF store.count = 0 THEN -ENODATA ELSE 0]

\* lines 453-523
drm_fb_proc_show(store) ==
    [count |-> store.count, frames |-> ShowLoop(store, 0, << >>), ret |-> 0]

(***************************************************************************)
(* drm_fb_raw_read(file, buffer, count, pos).                              *)
(*   slot/from/n  the copy_to_user it performs: n bytes of slot's          *)
(*                pixel_buffer starting at byte from (n = 0: no copy)      *)
(*   fault        copy_to_user cannot write the caller's buffer            *)
(***************************************************************************)
\* HasPixels without the has_pixels test
HasPixels_valid_only(capture) == capture.valid

\* line 538: captured_fbs[i].valid && captured_fbs[i].has_pixels
HasPixels(capture) == capture.valid /\ capture.has_pixels

\* ToCopy without the clamp to the end of the buffer
ToCopy_unclamped(count, buffer_size, offset) == count

\* line 555: min_t(size_t, count, capture->buffer_size - offset)
ToCopy(count, buffer_size, offset) == Min(count, buffer_size - offset)

\* the scan for (i = capture_count - 1; i >= 0; i--): slot index or -1
RECURSIVE FindCapture(_, _)
FindCapture(store, i) ==
    IF i >= 0
    THEN IF HasPixels(store.fbs[i])
         THEN i
         ELSE FindCapture(store, i - 1)
    ELSE -1

drm_fb_raw_read(store, count, pos, fault) ==
    LET i == FindCapture(store, store.count - 1)
        capture == store.fbs[i]
        to_copy == ToCopy(count, capture.buffer_size, pos)
        NoCopy(ret) == [ret |-> ret, pos |-> pos, slot |-> -1, from |-> 0, n |-> 0]
    IN  IF i = -1 THEN NoCopy(-ENODATA)
        ELSE IF ~capture.pixel_buffer.alloc THEN NoCopy(-ENODATA)
        ELSE IF pos >= capture.buffer_size THEN NoCopy(0)
        ELSE IF fault THEN NoCopy(-EFAULT)
        ELSE [ret |-> to_copy, pos |-> pos + to_copy,
              slot |-> i, from |-> pos, n |-> to_copy]

(***************************************************************************)
(* drm_fb_extractor_exit: the store after the buffers are freed.           *)
(***************************************************************************)
\* lines 648-653: the loop's calls of vfree, slot 0 first
RECURSIVE ExitFrees(_, _)
ExitFrees(store, i) ==
    IF i < MAX_FB_CAPTURE
    THEN FreeOld(store.fbs[i]) \o ExitFrees(store, i + 1)
    ELSE << >>

drm_fb_extractor_exit(store) ==
    [store EXCEPT
       !.fbs = [i \in Slots |-> [store.fbs[i] EXCEPT !.pixel_buffer = NullBuffer]],
       !.count = 0]

(***************************************************************************)
(* State.                                                                  *)
(*   captured_fbs, capture_count, current_index   the store                *)
(*   capture_mutex   "" when free, else the thread holding it              *)
(*   loaded          which of the kprobe, /proc/drm_fb_pixels (proc) and   *)
(*                   /proc/drm_fb_raw (proc_raw) are registered            *)
(*   clock           ktime_get_ns(), one tick per pipeline run             *)
(*   committed       the timestamps of the frames committed, in order      *)
(*   nfail           vmalloc failures so far                               *)
(*   last            Spec: the handler call that has just finished, with   *)
(*                   what it returned, until its caller resumes            *)
(*   pc, loc         ConcSpec: each thread's position and locals           *)
(***************************************************************************)
VARIABLES captured_fbs, capture_count, current_index, capture_mutex,
          loaded, clock, committed, nfail, last, pc, loc

store_vars == <<captured_fbs, capture_count, current_index>>
conc_vars == <<capture_mutex, pc, loc>>
vars == <<captured_fbs, capture_count, current_index, capture_mutex,
          loaded, clock, committed, nfail, last, pc, loc>>

Store == [fbs |-> captured_fbs, count |-> capture_count, index |-> current_index]

Threads == {"kprobe1", "kprobe2", "reader", "lister", "rmmod"}
Kprobes == {"kprobe1", "kprobe2"}

\* the module is loaded: drm_fb_extractor_exit has not begun
Live == loaded.kprobe /\ loaded.proc /\ loaded.proc_raw

\* drm_fb_extractor_init
Init ==
    /\ captured_fbs = [i \in Slots |-> ZeroCapture]
    /\ capture_count = 0
    /\ current_index = 0
    /\ capture_mutex = ""
    /\ loaded = [kprobe |-> TRUE, proc |-> TRUE, proc_raw |-> TRUE]
    /\ clock = 0
    /\ committed = << >>
    /\ nfail = 0
    /\ last = [op |-> "none"]
    /\ pc = [t \in Threads |-> "idle"]
    /\ loc = [t \in Threads |-> [op |-> "none"]]

(***************************************************************************)
(* Spec: the handlers are called one at a time; a call is one step and     *)
(* its return to the caller another.                                       *)
(***************************************************************************)
Idle == last.op = "none"

\* handler_drm_framebuffer_init -> capture_fb_pixels(fb, dev)
Capture ==
    \E fb \in Framebuffers, ok \in BOOLEAN, raw_ok \in BOOLEAN :
        LET tiled == detect_intel_tiling(fb) # INTEL_TILING_NONE
            failed == IF ok /\ raw_ok THEN 0 ELSE 1
            out == capture_fb_pixels(Store, fb, clock + 1, ok, raw_ok)
        IN  /\ Idle
            /\ loaded.kprobe
            /\ clock < MaxRuns
            /\ (~ok) => fb.obj
            /\ (~raw_ok) => (fb.obj /\ ok /\ tiled)
            /\ nfail + failed <= MaxAllocFail
            /\ captured_fbs' = out.store.fbs
            /\ capture_count' = out.store.count
            /\ current_index' = out.store.index
            /\ clock' = IF fb.obj THEN clock + 1 ELSE clock
            /\ committed' = IF out.ret = 0 THEN Append(committed, clock + 1)
                             ELSE committed
            /\ nfail' = nfail + failed
            /\ last' = [op |-> "capture", fb |-> fb, slot |-> current_index,
                        ret |-> out.ret, ext |-> out.ext, copied |-> out.copied,
                        ops |-> out.ops]
            /\ UNCHANGED <<loaded, conc_vars>>

\* read(2) on /proc/drm_fb_raw: count bytes at file position pos;
\* fault: the caller's buffer is not writable
ReadCall(pos, count, fault) == [pos |-> pos, count |-> count, fault |-> fault]

ReadCalls ==
    { ReadCall(0, 1, FALSE), ReadCall(0, 10, TRUE),
      ReadCall(15, 10, FALSE), ReadCall(16, 1, FALSE),
      ReadCall(MAX_CAPTURE_SIZE - 1, 10, FALSE),
      ReadCall(MAX_CAPTURE_SIZE, 1, FALSE) }

RawRead ==
    \E call \in ReadCalls :
        LET out == drm_fb_raw_read(Store, call.count, call.pos, call.fault)
        IN  /\ Idle
            /\ loaded.proc_raw
            /\ last' = [op |-> "read", call |-> call, out |-> out]
            /\ UNCHANGED <<store_vars, loaded, clock, committed, nfail, conc_vars>>

\* read(2) on /proc/drm_fb_pixels
ProcShow ==
    /\ Idle
    /\ loaded.proc
    /\ last' = [op |-> "show", out |-> drm_fb_proc_show(Store)]
    /\ UNCHANGED <<store_vars, loaded, clock, committed, nfail, conc_vars>>

\* rmmod -> drm_fb_extractor_exit
Exit ==
    LET out == drm_fb_extractor_exit(Store)
    IN  /\ Idle
        /\ Live
        /\ loaded' = [kprobe |-> FALSE, proc |-> FALSE, proc_raw |-> FALSE]
        /\ captured_fbs' = out.fbs
        /\ capture_count' = out.count
        /\ current_index' = out.index
        /\ last' = [op |-> "exit", ops |-> ExitFrees(Store, 0)]
        /\ UNCHANGED <<clock, committed, nfail, conc_vars>>

\* the handler has returned and its caller goes on
Return ==
    /\ ~Idle
    /\ last' = [op |-> "none"]
    /\ UNCHANGED <<store_vars, loaded, clock, committed, nfail, conc_vars>>

Next == Capture \/ RawRead \/ ProcShow \/ Exit \/ Return

Spec == Init /\ [][Next]_vars

(***************************************************************************)
(* ConcSpec: the handlers run on five threads (two kprobe hits, a reader   *)
(* of /proc/drm_fb_raw, a reader of /proc/drm_fb_pixels, rmmod) and are    *)
(* split where they take the mutex and, for capture_fb_pixels, after the   *)
(* old buffer is freed, after vmalloc and after extract_gem_pixels.        *)
(*   pc[t]   "idle", "lock" (about to call mutex_lock), then the steps     *)
(*           below; rmmod ends in "unloaded"                               *)
(*   loc[t]  the call's arguments and, once it returned, its result        *)
(***************************************************************************)
ConcFramebuffers == {FbSmall, FbWrap, FbNoObject}

\* CanLock ignoring the holder
CanLock_always(mutex) == TRUE

\* mutex_lock(&capture_mutex) returns only when the mutex is free
CanLock(mutex) == mutex = ""

MutexLock(t, next) ==
    /\ pc[t] = "lock"
    /\ CanLock(capture_mutex)
    /\ capture_mutex' = t
    /\ pc' = [pc EXCEPT ![t] = next]

\* MutexUnlockReturn returning with the mutex still held
MutexUnlockReturn_held(t) ==
    /\ capture_mutex' = capture_mutex
    /\ pc' = [pc EXCEPT ![t] = "idle"]

\* mutex_unlock(&capture_mutex), and the handler returns
MutexUnlockReturn(t) ==
    /\ capture_mutex' = ""
    /\ pc' = [pc EXCEPT ![t] = "idle"]

\* pipeline runs begun: those that read the clock, those about to
Started ==
    clock + Cardinality({t \in Kprobes : pc[t] \in {"lock", "free"}})

\* the kprobe fires: handler_drm_framebuffer_init calls capture_fb_pixels
\* (lines 319-322: without a GEM object it returns -EINVAL at once)
CapCall(t) ==
    \E fb \in ConcFramebuffers :
        /\ pc[t] = "idle"
        /\ loaded.kprobe
        /\ Started < MaxConcRuns
        /\ IF fb.obj
           THEN /\ pc' = [pc EXCEPT ![t] = "lock"]
                /\ loc' = [loc EXCEPT ![t] = [op |-> "capture", fb |-> fb]]
           ELSE /\ pc' = pc
                /\ loc' = [loc EXCEPT ![t] = [op |-> "capture", ret |-> -EINVAL]]
        /\ UNCHANGED <<store_vars, capture_mutex, loaded, clock, committed,
                       nfail, last>>

\* line 324
CapLock(t) ==
    /\ t \in Kprobes
    /\ MutexLock(t, "free")
    /\ UNCHANGED <<store_vars, loaded, clock, committed, nfail, last, loc>>

\* lines 327-356: free the old buffer, memset, metadata, buffer_size
CapFree(t) ==
    /\ pc[t] = "free"
    /\ captured_fbs' = [captured_fbs EXCEPT
                          ![current_index] = CaptureInit(loc[t].fb, clock + 1)]
    /\ clock' = clock + 1
    /\ pc' = [pc EXCEPT ![t] = "alloc"]
    /\ UNCHANGED <<capture_count, current_index, capture_mutex, loaded,
                   committed, nfail, last, loc>>

\* CapAllocFail returning with the mutex still held
CapAllocFail_no_unlock(t) ==
    /\ capture_mutex' = capture_mutex
    /\ pc' = [pc EXCEPT ![t] = "idle"]
    /\ loc' = [loc EXCEPT ![t] = [op |-> "capture", ret |-> -ENOMEM]]

\* lines 360-364: vmalloc returned NULL: unlock, return -ENOMEM
CapAllocFail(t) ==
    /\ MutexUnlockReturn(t)
    /\ loc' = [loc EXCEPT ![t] = [op |-> "capture", ret |-> -ENOMEM]]

\* lines 359-364: vmalloc, and the -ENOMEM return
CapAlloc(t) ==
    \E ok \in BOOLEAN :
        LET capture == CaptureAlloc(captured_fbs[current_index], ok)
        IN  /\ pc[t] = "alloc"
            /\ ok \/ nfail < MaxAllocFail
            /\ captured_fbs' = [captured_fbs EXCEPT ![current_index] = capture]
            /\ nfail' = IF ok THEN nfail ELSE nfail + 1
            /\ IF capture.pixel_buffer.alloc
               THEN /\ pc' = [pc EXCEPT ![t] = "extract"]
                    /\ UNCHANGED <<capture_mutex, loc>>
               ELSE CapAllocFail(t)
            /\ UNCHANGED <<capture_count, current_index, loaded, clock,
                           committed, last>>

\* line 373: ret = extract_gem_pixels(fb->obj[0], capture)
CapExtract(t) ==
    \E raw_ok \in BOOLEAN :
        LET capture == captured_fbs[current_index]
            ext == extract_gem_pixels(loc[t].fb.gem, capture, raw_ok)
        IN  /\ pc[t] = "extract"
            /\ (~raw_ok) => /\ capture.detected_tiling # INTEL_TILING_NONE
                            /\ nfail < MaxAllocFail
            /\ captured_fbs' = [captured_fbs EXCEPT ![current_index] = ext.capture]
            /\ nfail' = IF raw_ok THEN nfail ELSE nfail + 1
            /\ loc' = [loc EXCEPT ![t] = [op |-> "capture", fb |-> loc[t].fb,
                                          ext |-> ext.ret]]
            /\ pc' = [pc EXCEPT ![t] = "commit"]
            /\ UNCHANGED <<capture_count, current_index, capture_mutex, loaded,
                           clock, committed, last>>

\* lines 374-400: flags, counters, unlock, return 0
CapCommit(t) ==
    /\ pc[t] = "commit"
    /\ captured_fbs' = [captured_fbs EXCEPT ![current_index] =
                           CaptureMark(captured_fbs[current_index], loc[t].ext)]
    /\ current_index' = NextIndex(current_index)
    /\ capture_count' = NextCount(capture_count)
    /\ committed' = Append(committed, captured_fbs[current_index].timestamp)
    /\ MutexUnlockReturn(t)
    /\ loc' = [loc EXCEPT ![t] = [op |-> "capture", ret |-> 0]]
    /\ UNCHANGED <<loaded, clock, nfail, last>>

\* read(2) on /proc/drm_fb_raw enters drm_fb_raw_read
RdCall ==
    \E call \in {ReadCall(0, 10, FALSE), ReadCall(16, 1, FALSE)} :
        /\ pc["reader"] = "idle"
        /\ loaded.proc_raw
        /\ pc' = [pc EXCEPT !["reader"] = "lock"]
        /\ loc' = [loc EXCEPT !["reader"] =
                     [op |-> "read", call |-> call,
                      file |-> [start |-> call.pos, frames |-> {}]]]
        /\ UNCHANGED <<store_vars, capture_mutex, loaded, clock, committed,
                       nfail, last>>

\* the next read(2) on the same open file: it starts at the position the
\* previous read left in *pos and asks for all that may remain; a client
\* stops reading once a read returned nothing or failed
RdNext ==
    /\ pc["reader"] = "idle"
    /\ loaded.proc_raw
    /\ loc["reader"].op = "read"
    /\ loc["reader"].out.ret > 0
    /\ pc' = [pc EXCEPT !["reader"] = "lock"]
    /\ loc' = [loc EXCEPT !["reader"] =
                 [op |-> "read",
                  call |-> ReadCall(loc["reader"].out.pos, MAX_CAPTURE_SIZE, FALSE),
                  file |-> loc["reader"].file]]
    /\ UNCHANGED <<store_vars, capture_mutex, loaded, clock, committed,
                   nfail, last>>

\* line 534
RdLock ==
    /\ MutexLock("reader", "read")
    /\ UNCHANGED <<store_vars, loaded, clock, committed, nfail, last, loc>>

\* lines 536-566: scan, copy, unlock, return; file.frames: the frames (by
\* timestamp) the reads on this open file copied bytes from
RdBody ==
    LET call == loc["reader"].call
        file == loc["reader"].file
        out == drm_fb_raw_read(Store, call.count, call.pos, call.fault)
    IN  /\ pc["reader"] = "read"
        /\ loc' = [loc EXCEPT !["reader"] =
                     [op |-> "read", call |-> call, out |-> out,
                      file |-> [file EXCEPT !.frames =
                                  IF out.n > 0
                                  THEN @ \cup {captured_fbs[out.slot].timestamp}
                                  ELSE @]]]
        /\ MutexUnlockReturn("reader")
        /\ UNCHANGED <<store_vars, loaded, clock, committed, nfail, last>>

\* read(2) on /proc/drm_fb_pixels enters drm_fb_proc_show
ShowCall ==
    /\ pc["lister"] = "idle"
    /\ loaded.proc
    /\ pc' = [pc EXCEPT !["lister"] = "lock"]
    /\ loc' = [loc EXCEPT !["lister"] = [op |-> "show"]]
    /\ UNCHANGED <<store_vars, capture_mutex, loaded, clock, committed,
                   nfail, last>>

\* line 457
ShowLock ==
    /\ MutexLock("lister", "show")
    /\ UNCHANGED <<store_vars, loaded, clock, committed, nfail, last, loc>>

\* lines 459-522: print, unlock, return 0
ShowBody ==
    /\ pc["lister"] = "show"
    /\ loc' = [loc EXCEPT !["lister"] =
                 [op |-> "show", out |-> drm_fb_proc_show(Store)]]
    /\ MutexUnlockReturn("lister")
    /\ UNCHANGED <<store_vars, loaded, clock, committed, nfail, last>>

\* lines 636-638: proc_remove(proc_raw_entry) returns once no read of the
\* entry is in flight, and no read can begin afterwards
ExitRemoveRaw ==
    /\ pc["rmmod"] = "idle"
    /\ pc["reader"] = "idle"
    /\ loaded' = [loaded EXCEPT !.proc_raw = FALSE]
    /\ pc' = [pc EXCEPT !["rmmod"] = "remove_proc"]
    /\ UNCHANGED <<store_vars, capture_mutex, clock, committed, nfail, last, loc>>

\* lines 639-641: proc_remove(proc_entry)
ExitRemoveProc ==
    /\ pc["rmmod"] = "remove_proc"
    /\ pc["lister"] = "idle"
    /\ loaded' = [loaded EXCEPT !.proc = FALSE]
    /\ pc' = [pc EXCEPT !["rmmod"] = "unregister"]
    /\ UNCHANGED <<store_vars, capture_mutex, clock, committed, nfail, last, loc>>

\* ExitUnregister leaving the probe armed
ExitUnregister_skip ==
    /\ pc["rmmod"] = "unregister"
    /\ pc' = [pc EXCEPT !["rmmod"] = "lock"]
    /\ UNCHANGED <<store_vars, capture_mutex, loaded, clock, committed, nfail,
                   last, loc>>

\* line 644: unregister_kprobe; the probe cannot fire afterwards.  A handler
\* asleep in mutex_lock or vmalloc is not waited for.
ExitUnregister ==
    /\ pc["rmmod"] = "unregister"
    /\ loaded' = [loaded EXCEPT !.kprobe = FALSE]
    /\ pc' = [pc EXCEPT !["rmmod"] = "lock"]
    /\ UNCHANGED <<store_vars, capture_mutex, clock, committed, nfail, last, loc>>

\* line 647
ExitLock ==
    /\ MutexLock("rmmod", "exit_free")
    /\ UNCHANGED <<store_vars, loaded, clock, committed, nfail, last, loc>>

\* lines 648-655: free every buffer, capture_count = 0, unlock
ExitFree ==
    LET out == drm_fb_extractor_exit(Store)
    IN  /\ pc["rmmod"] = "exit_free"
        /\ captured_fbs' = out.fbs
        /\ capture_count' = out.count
        /\ current_index' = out.index
        /\ capture_mutex' = ""
        /\ pc' = [pc EXCEPT !["rmmod"] = "unloaded"]
        /\ UNCHANGED <<loaded, clock, committed, nfail, last, loc>>

ConcNext ==
    \/ \E t \in Kprobes : CapCall(t)
    \/ \E t \in Kprobes : CapLock(t)
    \/ \E t \in Kprobes : CapFree(t)
    \/ \E t \in Kprobes : CapAlloc(t)
    \/ \E t \in Kprobes : CapExtract(t)
    \/ \E t \in Kprobes : CapCommit(t)
    \/ RdCall \/ RdNext \/ RdLock \/ RdBody
    \/ ShowCall \/ ShowLock \/ ShowBody
    \/ ExitRemoveRaw \/ ExitRemoveProc \/ ExitUnregister \/ ExitLock \/ ExitFree

ConcSpec == Init /\ [][ConcNext]_vars

(***************************************************************************)
(* One pipeline thread, the reader, the lister and teardown under a        *)
(* scheduler that keeps running a thread that holds the mutex, and a mutex *)
(* that hands itself to every waiter in turn: weak fairness on the steps   *)
(* taken with capture_mutex held, strong fairness on mutex_lock in the     *)
(* three handlers.  Entering a handler is never forced, nor is teardown.   *)
(***************************************************************************)
FairNext ==
    \/ (Started < MaxFairRuns /\ CapCall("kprobe1"))
    \/ CapLock("kprobe1") \/ CapFree("kprobe1")
    \/ CapAlloc("kprobe1") \/ CapExtract("kprobe1") \/ CapCommit("kprobe1")
    \/ RdCall \/ RdNext \/ RdLock \/ RdBody
    \/ ShowCall \/ ShowLock \/ ShowBody
    \/ ExitRemoveRaw \/ ExitRemoveProc \/ ExitUnregister \/ ExitLock \/ ExitFree

\* the steps taken with capture_mutex held; at most one is enabled at a time
HolderStep ==
    \/ CapFree("kprobe1") \/ CapAlloc("kprobe1")
    \/ CapExtract("kprobe1") \/ CapCommit("kprobe1")
    \/ RdBody \/ ShowBody \/ ExitFree

Fairness ==
    /\ WF_vars(HolderStep)
    /\ SF_vars(CapLock("kprobe1"))
    /\ SF_vars(RdLock)
    /\ SF_vars(ShowLock)

FairConcSpec == Init /\ [][FairNext]_vars /\ Fairness

(***************************************************************************)
(* UnitSpec: detect_intel_tiling, extract_gem_pixels and                   *)
(* convert_tiled_to_linear called on their own, each call one step and     *)
(* its return another; last holds the arguments and the result.            *)
(***************************************************************************)
Modifiers == {MOD_NONE, I915_FORMAT_MOD_X_TILED, I915_FORMAT_MOD_Y_TILED,
              I915_FORMAT_MOD_Yf_TILED, MOD_OTHER}

\* fb->pitches[0]
DetectPitches == {0, 8, 512, 520, 1024, 15360}

Detect ==
    \E modifier \in Modifiers, pitch \in DetectPitches :
        /\ Idle
        /\ last' = [op |-> "detect", modifier |-> modifier, pitch |-> pitch,
                    out |-> detect_intel_tiling([modifier |-> modifier,
                                                 pitch |-> pitch])]
        /\ UNCHANGED <<store_vars, loaded, clock, committed, nfail, conc_vars>>

\* GEM objects: with or without a shmem file (of one or two pages, any of
\* them resident), with or without an imported dma-buf (smaller or larger
\* than a page, vmap succeeding or not)
UnitGems ==
    { g \in [filp : BOOLEAN, size : {16, 2 * PAGE_SIZE},
             resident : SUBSET {0, 1},
             dma_buf : BOOLEAN, dma_size : {0, 8, 3 * PAGE_SIZE},
             vmap_ok : BOOLEAN] :
        /\ g.filp => g.resident \subseteq 0 .. ((g.size + PAGE_SIZE - 1) \div PAGE_SIZE - 1)
        /\ ~g.filp => g.resident = {}
        /\ g.dma_buf <=> g.dma_size > 0
        /\ ~g.dma_buf => ~g.vmap_ok }

\* 2x2, X-tiled, one tile row of 512 bytes per line
FbTiled == [id |-> 6, width |-> 2, height |-> 2, pitch |-> 512,
            modifier |-> I915_FORMAT_MOD_X_TILED, obj |-> TRUE, gem |-> GemShmem]

UnitFramebuffers == {FbSmall, FbTiled, FbLarge, FbWrap}

\* extract_gem_pixels(fb->obj[0], capture) as capture_fb_pixels calls it at
\* line 373: the capture filled in, its pixel_buffer allocated
Extract ==
    \E fb \in UnitFramebuffers, gem \in UnitGems, raw_ok \in BOOLEAN :
        LET capture == CaptureAlloc(CaptureInit(fb, 1), TRUE)
        IN  /\ Idle
            /\ (~raw_ok) => capture.detected_tiling # INTEL_TILING_NONE
            /\ last' = [op |-> "extract", gem |-> gem, capture |-> capture,
                        raw_ok |-> raw_ok,
                        out |-> extract_gem_pixels(gem, capture, raw_ok)]
            /\ UNCHANGED <<store_vars, loaded, clock, committed, nfail, conc_vars>>

\* 2x513 linear: 4104 bytes, one page and eight bytes
FbTwoPages == [id |-> 7, width |-> 2, height |-> 513, pitch |-> 8,
               modifier |-> MOD_NONE, obj |-> TRUE, gem |-> GemShmem]
\* 2x9, X-tiled, pitch 512: a raw buffer of 4608 bytes, two tile rows
FbTiledTwoPages == [id |-> 8, width |-> 2, height |-> 9, pitch |-> 512,
                    modifier |-> I915_FORMAT_MOD_X_TILED, obj |-> TRUE,
                    gem |-> GemShmem]

\* the framebuffers whose buffers are followed byte by byte
ByteFramebuffers == {FbSmall, FbTiled, FbTwoPages, FbTiledTwoPages}

\* the same call, with the contents of the buffers it leaves
ExtractBytes ==
    \E fb \in ByteFramebuffers, gem \in UnitGems :
        LET capture == CaptureAlloc(CaptureInit(fb, 1), TRUE)
        IN  /\ Idle
            /\ last' = [op |-> "extract_bytes", gem |-> gem, capture |-> capture,
                        out |-> extract_gem_pixels(gem, capture, TRUE),
                        bytes |-> extract_gem_bytes(gem, capture, TRUE)]
            /\ UNCHANGED <<store_vars, loaded, clock, committed, nfail, conc_vars>>

\* width, height, pitch handed to convert_tiled_to_linear
Geometry(width, height, pitch) ==
    [width |-> width, height |-> height, pitch |-> pitch]

ConvGeometries ==
    { Geometry(2, 2, 512),       \* inside one tile
      Geometry(3, 2, 8),         \* pitch below a tile width
      Geometry(64, 1, 256),      \* two Y tiles wide, one line high
      Geometry(129, 9, 1024),    \* crosses an X tile in both directions
      Geometry(33, 33, 256),     \* crosses a Y tile in both directions
      Geometry(0, 2, 512), Geometry(2, 0, 512), Geometry(2, 2, 0) }

Tilings == {INTEL_TILING_NONE, INTEL_TILING_X, INTEL_TILING_Y, INTEL_TILING_YF}

\* contents of the tiled source: two byte patterns
SrcPatterns == {1, 2}
SrcByte(pattern, i) == (pattern * i + pattern) % 251

\* contents of a vmalloc'ed buffer nothing was stored to yet: vmalloc does
\* not clear the pages, every byte holds whatever the pages held
JunkBytes == {0, 165}

\* src_buffer: NULL, or height * pitch bytes (raw_buffer, line 207)
SrcBufferOf(in) ==
    IF in.src_null THEN NullBytes
    ELSE LET size == in.geometry.height * in.geometry.pitch
         IN  ByteBuffer(size, [i \in 0 .. (size - 1) |-> SrcByte(in.pattern, i)])

\* dst_buffer: NULL, or height * width * 4 bytes (pixel_buffer, line 359)
\* as vmalloc returned them
DstBufferOf(in) ==
    IF in.dst_null THEN NullBytes
    ELSE LET size == in.geometry.height * in.geometry.width * 4
         IN  ByteBuffer(size, [i \in 0 .. (size - 1) |-> in.junk])

ConvertCall(in) ==
    convert_tiled_to_linear(SrcBufferOf(in), DstBufferOf(in),
                            in.geometry.width, in.geometry.height,
                            in.geometry.pitch, in.tiling)

ConvertInputs ==
    { in \in [geometry : ConvGeometries, tiling : Tilings,
              src_null : BOOLEAN, pattern : SrcPatterns,
              dst_null : BOOLEAN, junk : JunkBytes] :
        /\ in.src_null => in.pattern = 1
        /\ in.dst_null => in.junk = 0 }

Convert ==
    \E in \in ConvertInputs :
        /\ Idle
        /\ last' = [op |-> "convert", in |-> in, out |-> ConvertCall(in)]
        /\ UNCHANGED <<store_vars, loaded, clock, committed, nfail, conc_vars>>

\* the same source converted once more, into another freshly allocated
\* destination, as a second pipeline run on the same framebuffer does
\* (a framebuffer of some size whose lines fit its pitch)
ConvertAgain ==
    \E junk \in JunkBytes :
        /\ last.op = "convert"
        /\ ~last.in.dst_null
        /\ last.in.geometry.height > 0
        /\ 0 < last.in.geometry.width * 4
        /\ last.in.geometry.width * 4 <= last.in.geometry.pitch
        /\ LET in == [last.in EXCEPT !.junk = junk]
           IN  last' = [op |-> "convert_again", in |-> in, first |-> last.out,
                        out |-> ConvertCall(in)]
        /\ UNCHANGED <<store_vars, loaded, clock, committed, nfail, conc_vars>>

(***************************************************************************)
(* The standalone converter (src/km_new/intel_y_tile_to_linear.c):         *)
(*   intel_y_tile_to_linear <width> <height> <pitch> <X|Y|Yf> in.raw out.raw *)
(* convert() has no bounds test.  A load from beyond the end of src is     *)
(* undefined: it yields some byte or the process dies (oob: the byte, or   *)
(* SegFault).  Its stores are always inside dst.                           *)
(***************************************************************************)
SegFault == -3
OobLoads == JunkBytes \cup {SegFault}

\* argv[4] for a tiling
CliLayout(tiling) ==
    IF tiling = INTEL_TILING_X THEN "X"
    ELSE IF tiling = INTEL_TILING_Y THEN "Y" ELSE "Yf"

\* lines 60-61: layout == 'X' tests the first character of argv[4]
CliTileW(layout) == IF layout = "X" THEN 512 ELSE 128
CliTileH(layout) == IF layout = "X" THEN 8 ELSE 32

\* CliOffset reading the source row by row, as if it were linear
CliOffset_linear(x, y, pitch, tile_w, tile_h) == y * pitch + x

\* lines 28-41: offset of byte x of line y
CliOffset(x, y, pitch, tile_w, tile_h) ==
    LET tile_size == tile_w * tile_h
        tiles_per_row == pitch \div tile_w
        tile_x == x \div tile_w
        tile_y == y \div tile_h
        tile_index == tile_y * tiles_per_row + tile_x
        in_tile_x == x % tile_w            \* x & (tile_w - 1)
        in_tile_y == y % tile_h            \* y & (tile_h - 1)
    IN  tile_index * tile_size + in_tile_y * tile_w + in_tile_x

\* lines 24-45: convert(dst, src, w, h, pitch, tile_w, tile_h); every
\* (y, x) has its own destination index y * w * 4 + x
convert(dst, src, w, h, pitch, tile_w, tile_h, oob) ==
    LET OffsetOf(d) == CliOffset(d % (w * 4), d \div (w * 4), pitch, tile_w, tile_h)
        outside == {d \in 0 .. (h * w * 4 - 1) : OffsetOf(d) >= src.size}
    IN  IF outside # {} /\ oob = SegFault
        THEN [fault |-> TRUE, dst |-> dst, outside |-> outside]
        ELSE [fault |-> FALSE,
              dst |-> [dst EXCEPT !.bytes =
                         [d \in 0 .. (dst.size - 1) |->
                            IF OffsetOf(d) >= src.size THEN oob
                            ELSE src.bytes[OffsetOf(d)]]],
              outside |-> outside]

\* lines 47-79: main, for a width and a height above 0, an in.raw that
\* holds the height * pitch bytes of the source and buffers malloc returned
\* (dst holding junk); out_raw: the bytes written to out.raw
cli_main(w, h, pitch, layout, in_raw, junk, oob) ==
    LET tile_w == CliTileW(layout)
        tile_h == CliTileH(layout)
        src == ByteBuffer(h * pitch, in_raw)
        dst == ByteBuffer(h * w * 4, [i \in 0 .. (h * w * 4 - 1) |-> junk])
        out == convert(dst, src, w, h, pitch, tile_w, tile_h, oob)
    IN  IF out.fault
        THEN [exit |-> "SIGSEGV", out_raw |-> << >>, outside |-> out.outside]
        ELSE [exit |-> "EXIT_SUCCESS", out_raw |-> out.dst.bytes,
              outside |-> out.outside]

\* geometries whose pitch is a multiple of a tile width and holds a line,
\* and whose height is a multiple of that tile's height
AlignedGeometries ==
    { Geometry(2, 8, 512),       \* one X tile
      Geometry(129, 8, 1024),    \* two X tiles wide
      Geometry(2, 16, 512),      \* two X tiles high
      Geometry(2, 32, 128),      \* one Y tile
      Geometry(33, 32, 256),     \* two Y tiles wide
      Geometry(2, 64, 128),      \* two Y tiles high
      Geometry(32, 32, 128) }    \* pitch = width * 4

\* geometries outside them: a height that is no multiple of a tile height,
\* a pitch below a tile width
UnalignedGeometries ==
    { Geometry(2, 2, 512), Geometry(3, 2, 8), Geometry(33, 33, 256) }

BothInputs ==
    [geometry : AlignedGeometries \cup UnalignedGeometries,
     tiling : Tilings \ {INTEL_TILING_NONE},
     src_null : {FALSE}, pattern : SrcPatterns,
     dst_null : {FALSE}, junk : JunkBytes]

\* the same source and geometry given to the module's converter and to the
\* standalone converter
ConvertBoth ==
    \E in \in BothInputs, oob \in OobLoads :
        /\ Idle
        /\ last' = [op |-> "convert_both", in |-> in, out |-> ConvertCall(in),
                    cli |-> cli_main(in.geometry.width, in.geometry.height,
                                     in.geometry.pitch, CliLayout(in.tiling),
                                     SrcBufferOf(in).bytes, in.junk, oob)]
        /\ UNCHANGED <<store_vars, loaded, clock, committed, nfail, conc_vars>>

UnitNext ==
    \/ Detect \/ Extract \/ ExtractBytes
    \/ Convert \/ ConvertAgain \/ ConvertBoth \/ Return

UnitSpec == Init /\ [][UnitNext]_vars

(***************************************************************************)
(* Properties of the store, checked under Spec.                            *)
(***************************************************************************)
PixelSlots == {i \in Slots : captured_fbs[i].has_pixels}
ValidSlots == {i \in Slots : captured_fbs[i].valid}
Commits == Len(committed)
Range(seq) == {seq[k] : k \in 1 .. Len(seq)}

\* C1: a raw read that copies bytes copies them from the pixel-bearing
\* frame committed last (the greatest timestamp among the slots that have
\* pixel data), also once the ring has wrapped.
C1_ReadServesLatestPixelFrame ==
    (last.op = "read" /\ last.out.n > 0) =>
        \A j \in PixelSlots :
            captured_fbs[j].timestamp <= captured_fbs[last.out.slot].timestamp

\* C2: a listing emits exactly the valid frames, oldest first and newest
\* last, also once the ring has wrapped.
C2_ListInInsertionOrder ==
    (last.op = "show") =>
        /\ Range(last.out.frames) = ValidSlots
        /\ \A a, b \in 1 .. Len(last.out.frames) :
              a < b => captured_fbs[last.out.frames[a]].timestamp
                          < captured_fbs[last.out.frames[b]].timestamp

C4_CircularSlotReuse ==
    (last.op = "capture" /\ last.ret = 0) =>
        /\ last.slot = (Commits - 1) % MAX_FB_CAPTURE
        /\ captured_fbs[last.slot].valid
        /\ captured_fbs[last.slot].timestamp = committed[Commits]
        /\ Commits = MAX_FB_CAPTURE + 1 =>
              /\ ValidSlots = Slots
              /\ \A k \in 1 .. MAX_FB_CAPTURE :
                    captured_fbs[k % MAX_FB_CAPTURE].timestamp = committed[k + 1]
              /\ \A i \in Slots : captured_fbs[i].timestamp # committed[1]

C4_Witness ==
    last.op = "capture" /\ last.ret = 0 /\ Commits = MAX_FB_CAPTURE + 1

\* what C6 says of a read at offset off for len bytes, served from slot i
ReadClamped(i, off, len, out) ==
    LET buffer_size == captured_fbs[i].buffer_size
        n == Min(len, buffer_size - off)
    IN  IF off >= buffer_size
        THEN out.ret = 0 /\ out.n = 0 /\ out.pos = off
        ELSE /\ out.ret = n
             /\ out.slot = i /\ out.from = off /\ out.n = n
             /\ out.pos = off + n

\* C6 as stated: with a pixel-bearing frame of size buffer_size in the
\* store, every read at offset >= buffer_size returns 0 bytes and every
\* other read returns min(length, buffer_size - offset) bytes of the frame
\* from offset on and advances the position by as much.
C6_ReadBoundaries ==
    (last.op = "read" /\ PixelSlots # {}) =>
        \E i \in PixelSlots :
            ReadClamped(i, last.call.pos, last.call.count, last.out)

\* C6 amended: the same whenever the caller's buffer is writable; when it
\* is not and offset < buffer_size, the read returns -EFAULT, reports no
\* bytes and leaves the position alone.
C6_ReadBoundariesOrFault ==
    (last.op = "read" /\ PixelSlots # {}) =>
        \E i \in PixelSlots :
            IF last.call.fault /\ last.call.pos < captured_fbs[i].buffer_size
            THEN /\ last.out.ret = -EFAULT
                 /\ last.out.n = 0
                 /\ last.out.pos = last.call.pos
            ELSE ReadClamped(i, last.call.pos, last.call.count, last.out)

\* offset = buffer_size - 1, length = 10: exactly one byte
C6_Witness ==
    /\ last.op = "read"
    /\ last.call.pos = 15 /\ last.call.count = 10
    /\ last.out.ret = 1 /\ last.out.from = 15 /\ last.out.pos = 16

\* C7: a raw read fails with -ENODATA exactly when no slot has pixel data,
\* and then copies nothing and leaves the position alone.
C7_NoDataIffNoPixelFrame ==
    (last.op = "read") =>
        /\ (last.out.ret = -ENODATA) <=> (PixelSlots = {})
        /\ (last.out.ret = -ENODATA) =>
              (last.out.n = 0 /\ last.out.pos = last.call.pos)

\* a store holding metadata-only frames and nothing else
C7_Witness ==
    /\ last.op = "read" /\ last.out.ret = -ENODATA
    /\ ValidSlots # {}

\* min(height * width * 4, MAX_CAPTURE_SIZE) over the integers
MathSize(height, width) ==
    IF height = 0 \/ width = 0 THEN 0
    ELSE IF width > MAX_CAPTURE_SIZE \div (4 * height) THEN MAX_CAPTURE_SIZE
    ELSE height * width * 4

\* C8: every committed frame has buffer_size = min(height * width * 4,
\* MAX_CAPTURE_SIZE), the product taken over the integers.
C8_BufferSizeIsCappedProduct ==
    \A i \in ValidSlots :
        captured_fbs[i].buffer_size =
            MathSize(captured_fbs[i].height, captured_fbs[i].width)

\* C9: between operations every slot's pixel buffer is buffer_size bytes
\* long (no buffer: 0 bytes) and buffer_size <= MAX_CAPTURE_SIZE.
C9_BufferLengthIsBufferSize ==
    Live =>
        \A i \in Slots :
            /\ captured_fbs[i].pixel_buffer.size = captured_fbs[i].buffer_size
            /\ captured_fbs[i].buffer_size <= MAX_CAPTURE_SIZE

\* C10: a pipeline run whose final buffer was allocated returns 0 and
\* advances current_index; if the extractor copied bytes the frame is valid
\* with pixel data and is_detiled = (a tiling was detected); if the
\* extractor returned -ENODATA the frame is valid, without pixel data and
\* not detiled.
C10_CommitFlags ==
    (/\ last.op = "capture" /\ last.fb.obj
     /\ captured_fbs[last.slot].pixel_buffer.alloc) =>
        LET c == captured_fbs[last.slot]
        IN  /\ last.ret = 0
            /\ current_index = (last.slot + 1) % MAX_FB_CAPTURE
            /\ last.copied > 0 =>
                  /\ c.has_pixels /\ c.valid
                  /\ c.is_detiled <=> (c.detected_tiling # INTEL_TILING_NONE)
            /\ last.ext = -ENODATA =>
                  ~c.has_pixels /\ c.valid /\ ~c.is_detiled

\* a tiled frame whose object no backend could read
C10_Witness ==
    /\ last.op = "capture" /\ last.ext = -ENODATA
    /\ captured_fbs[last.slot].valid
    /\ captured_fbs[last.slot].detected_tiling # INTEL_TILING_NONE

\* C12 as stated: a pipeline run whose scratch allocation fails (the
\* extractor returns -ENOMEM) returns -ENOMEM to its caller and leaves the
\* targeted slot invalid.
C12_ScratchFailureSurfaces ==
    (last.op = "capture" /\ last.ext = -ENOMEM) =>
        /\ last.ret = -ENOMEM
        /\ ~captured_fbs[last.slot].valid

\* C19 as stated: a raw read returns -ENODATA (and then no slot has pixel
\* data) or a byte count >= 0, nothing else; a listing returns 0.
C19_ReadErrorsOnlyNoData ==
    /\ (last.op = "read") =>
          \/ last.out.ret >= 0
          \/ last.out.ret = -ENODATA /\ PixelSlots = {}
    /\ (last.op = "show") => last.out.ret = 0

\* C19 amended: a raw read may also return -EFAULT, when the caller's
\* buffer cannot be written.
C19_ReadErrorsNoDataOrFault ==
    /\ (last.op = "read") =>
          \/ last.out.ret >= 0
          \/ last.out.ret = -ENODATA /\ PixelSlots = {}
          \/ last.out.ret = -EFAULT /\ last.call.fault /\ PixelSlots # {}
    /\ (last.op = "show") => last.out.ret = 0

\* a read into an unwritable buffer with a pixel-bearing frame in the store
C19_Witness ==
    /\ last.op = "read" /\ last.call.fault
    /\ last.out.ret = -EFAULT

\* Inside a pipeline run the converter is handed two allocated buffers
\* and a tiling of X, Y or Yf, so it never fails: the extractor returns 0,
\* -ENODATA or -ENOMEM, and a frame whose extraction copied bytes is
\* detiled exactly when a tiling was detected.
ExtractorReturnCodes ==
    (last.op = "capture" /\ last.ret = 0) =>
        /\ last.ext \in {0, -ENODATA, -ENOMEM}
        /\ last.copied > 0 => last.ext = 0

(***************************************************************************)
(* Properties of the locking, checked under ConcSpec.                      *)
(***************************************************************************)
\* the steps a thread takes between mutex_lock and mutex_unlock
CriticalSteps == {"free", "alloc", "extract", "commit", "read", "show", "exit_free"}
\* a pipeline run between freeing the slot's old buffer and its commit
MidRunSteps == {"alloc", "extract", "commit"}

InCritical(t) == pc[t] \in CriticalSteps

\* C5: at most one thread is inside the store's critical section; no raw
\* read, listing or teardown touches the store while a pipeline run is
\* between freeing a slot's buffer and committing it; two pipeline runs are
\* never both inside.
C5_MutualExclusion ==
    /\ \A t1, t2 \in Threads : (InCritical(t1) /\ InCritical(t2)) => t1 = t2
    /\ \A k \in Kprobes : pc[k] \in MidRunSteps =>
          /\ pc["reader"] # "read"
          /\ pc["lister"] # "show"
          /\ pc["rmmod"] # "exit_free"
          /\ \A k2 \in Kprobes \ {k} : ~InCritical(k2)

\* a run mid-way while the other run, a read and a listing wait in
\* mutex_lock
C5_Witness ==
    /\ pc["kprobe1"] = "extract"
    /\ capture_mutex = "kprobe1"
    /\ pc["kprobe2"] = "lock"
    /\ pc["reader"] = "lock"
    /\ pc["lister"] = "lock"

\* the slots other than the one a pipeline run targets are as they were
OtherSlotsUnchanged ==
    \A i \in Slots \ {current_index} : captured_fbs'[i] = captured_fbs[i]

\* C11: a pipeline run changes no slot but its target, nor the counters,
\* up to its allocation; when vmalloc of the final buffer returns NULL the
\* run returns -ENOMEM with the mutex released, the target slot invalid
\* and without pixel data, and current_index, capture_count and every
\* other slot unchanged.
C11_FinalAllocFailure ==
    [][\A t \in Kprobes :
         /\ (pc[t] = "free" /\ pc'[t] # "free") =>
               /\ current_index' = current_index
               /\ capture_count' = capture_count
               /\ OtherSlotsUnchanged
         /\ (/\ pc[t] = "alloc" /\ pc'[t] # "alloc"
             /\ ~captured_fbs'[current_index].pixel_buffer.alloc) =>
               /\ pc'[t] = "idle"
               /\ loc'[t].ret = -ENOMEM
               /\ capture_mutex' = ""
               /\ ~captured_fbs'[current_index].valid
               /\ ~captured_fbs'[current_index].has_pixels
               /\ current_index' = current_index
               /\ capture_count' = capture_count
               /\ OtherSlotsUnchanged]_vars

\* a run has failed with -ENOMEM while the store holds an earlier frame
C11_Witness ==
    \E t \in Kprobes :
        /\ pc[t] = "idle" /\ loc[t].op = "capture"
        /\ "ret" \in DOMAIN loc[t] /\ loc[t].ret = -ENOMEM
        /\ capture_mutex = ""
        /\ capture_count > 0
        /\ ~captured_fbs[current_index].valid

(***************************************************************************)
(* Properties of the functions, checked under UnitSpec.                    *)
(***************************************************************************)
\* the SHMEM method finds a page to copy; the DMA-buf method can map
PagedReadable(gem) == gem.filp /\ gem.resident # {}
ExternalReadable(gem) == gem.dma_buf /\ gem.vmap_ok

\* C13: the extractor enters the SHMEM method first (when the object has a
\* shmem file) and the DMA-buf method second; it returns 0 from the SHMEM
\* method when that copied bytes, without entering the DMA-buf method; it
\* goes on to the DMA-buf method when the SHMEM method is absent or copied
\* nothing; it returns -ENODATA when neither method yields bytes; a return
\* of 0 always comes with copied > 0.
C13_BackendOrder ==
    (last.op = "extract" /\ last.out.ret # -ENOMEM) =>
        LET gem == last.gem
            out == last.out
        IN  /\ out.tried \in {<< >>, <<"shmem">>, <<"dma_buf">>,
                              <<"shmem", "dma_buf">>}
            /\ ("shmem" \in Range(out.tried)) <=> gem.filp
            /\ PagedReadable(gem) =>
                  out.ret = 0 /\ out.copied > 0 /\ out.tried = <<"shmem">>
            /\ (~PagedReadable(gem) /\ gem.dma_buf) =>
                  out.tried[Len(out.tried)] = "dma_buf"
            /\ (~PagedReadable(gem) /\ ExternalReadable(gem)) =>
                  out.ret = 0 /\ out.copied > 0
            /\ (~PagedReadable(gem) /\ ~ExternalReadable(gem)) =>
                  out.ret = -ENODATA /\ out.copied = 0
            /\ out.ret = 0 => out.copied > 0

\* the SHMEM method copied nothing and the DMA-buf method delivered
C13_Witness ==
    /\ last.op = "extract"
    /\ last.out.tried = <<"shmem", "dma_buf">>
    /\ last.out.ret = 0 /\ last.out.copied > 0

\* the guess C14 describes for a modifier that is not a known one
PitchGuess(pitch) ==
    IF pitch % 512 = 0 THEN INTEL_TILING_X ELSE INTEL_TILING_NONE

Converted == last.op \in {"convert", "convert_again"} /\ last.out.ret = 0

\* tile dimensions and offsets as C15 gives them
ClaimTileW(tiling) == IF tiling = INTEL_TILING_X THEN 512 ELSE 128
ClaimTileH(tiling) == IF tiling = INTEL_TILING_X THEN 8 ELSE 32
ClaimSrcOffset(x, y, pitch, tiling) ==
    LET tile_w == ClaimTileW(tiling)
        tile_h == ClaimTileH(tiling)
        tile_index == (y \div tile_h) * (pitch \div tile_w) + ((x * 4) \div tile_w)
    IN  tile_index * tile_w * tile_h + (y % tile_h) * tile_w + ((x * 4) % tile_w)
ClaimDstOffset(x, y, width) == y * width * 4 + x * 4

\* byte b of pixel (x, y) of the destination holds the source byte C15 names
PixelByteCopied(x, y, b) ==
    LET g == last.in.geometry
        s == ClaimSrcOffset(x, y, g.pitch, last.in.tiling) + b
        d == ClaimDstOffset(x, y, g.width) + b
    IN  last.out.dst.bytes[d] = SrcByte(last.in.pattern, s)

\* byte b of pixel (x, y) has its source inside the height * pitch bytes
PixelByteInSource(x, y, b) ==
    LET g == last.in.geometry
    IN  ClaimSrcOffset(x, y, g.pitch, last.in.tiling) + b < g.height * g.pitch

\* C15 as stated: after a conversion every pixel (x, y), x < width,
\* y < height, of the destination holds the 4 source bytes at src_offset.
C15_EveryPixelCopied ==
    Converted =>
        \A x \in 0 .. (last.in.geometry.width - 1),
           y \in 0 .. (last.in.geometry.height - 1), b \in 0 .. 3 :
            PixelByteCopied(x, y, b)

\* C15 amended: the same for the bytes whose source index is below
\* height * pitch; and pixel (0, 9) of a 512-wide X-tiled frame of pitch
\* 512 is read at 4608 and stored at 18432.
C15_PixelCopiedWhenInSource ==
    /\ SrcOffset(0, 9, 512, INTEL_TILING_X) = 4608
    /\ DstOffset(0, 9, 512) = 18432
    /\ Converted =>
          \A x \in 0 .. (last.in.geometry.width - 1),
             y \in 0 .. (last.in.geometry.height - 1), b \in 0 .. 3 :
              PixelByteInSource(x, y, b) => PixelByteCopied(x, y, b)

\* a conversion that took pixels from the second tile of a row and from
\* the second row of tiles
C15_Witness ==
    /\ Converted
    /\ last.in.tiling = INTEL_TILING_X
    /\ last.in.geometry = Geometry(129, 9, 1024)
    /\ SrcOffset(128, 0, 1024, INTEL_TILING_X) \in last.out.reads
    /\ SrcOffset(0, 8, 1024, INTEL_TILING_X) \in last.out.reads

\* C16: every index the converter stores to is below height * width * 4,
\* every index it loads from is below height * pitch; a destination byte
\* it does not store to keeps the value it had; and the conversion returns
\* 0 whenever both buffers are there and the tiling is X, Y or Yf.
C16_ConverterBounds ==
    (last.op \in {"convert", "convert_again"}) =>
        LET g == last.in.geometry
            out == last.out
        IN  /\ \A r \in out.reads : r >= 0 /\ r < g.height * g.pitch
            /\ \A w \in out.writes : w >= 0 /\ w < g.height * g.width * 4
            /\ \A d \in 0 .. (out.dst.size - 1) :
                  d \notin out.writes => out.dst.bytes[d] = last.in.junk
            /\ (/\ ~last.in.src_null /\ ~last.in.dst_null
                /\ last.in.tiling # INTEL_TILING_NONE) => out.ret = 0

\* a conversion that skipped some bytes and copied others
C16_Witness ==
    /\ Converted
    /\ last.out.writes # {}
    /\ \E d \in 0 .. (last.out.dst.size - 1) : d \notin last.out.writes

\* C17: converting the same source with the same width, height, pitch and
\* tiling a second time gives a destination equal byte for byte to the
\* first.
C17_ConversionDeterministic ==
    (last.op = "convert_again" /\ last.out.ret = 0) =>
        last.out.dst.bytes = last.first.dst.bytes

\* C18: the converter returns -EINVAL exactly when src is NULL, dst is NULL
\* or the tiling is none of X, Y, Yf, and then stores nothing; otherwise it
\* returns 0, also for a width, height or pitch of 0.
C18_ConverterErrors ==
    (last.op \in {"convert", "convert_again"}) =>
        LET rejected == \/ last.in.src_null
                        \/ last.in.dst_null
                        \/ last.in.tiling \notin {INTEL_TILING_X, INTEL_TILING_Y,
                                                  INTEL_TILING_YF}
        IN  /\ last.out.ret = IF rejected THEN -EINVAL ELSE 0
            /\ rejected => /\ last.out.writes = {}
                           /\ last.out.dst = DstBufferOf(last.in)

\* both buffers present, tiling NONE
C18_Witness ==
    /\ last.op = "convert"
    /\ ~last.in.src_null /\ ~last.in.dst_null
    /\ last.in.tiling = INTEL_TILING_NONE
    /\ last.out.ret = -EINVAL

(***************************************************************************)
(* C21.  The heap is followed through each handler's calls of vmalloc and  *)
(* vfree: Heap(live, ops) is the set of allocated buffers after the calls  *)
(* ops were made with the buffers live allocated, and the set of buffers   *)
(* vfree was called on while they were not allocated.                      *)
(***************************************************************************)
RECURSIVE Heap(_, _, _)
Heap(live, bad, ops) ==
    IF ops = << >> THEN [live |-> live, bad |-> bad]
    ELSE LET o == Head(ops)
         IN  IF o.call = "vmalloc"
             THEN Heap(live \cup {o.buf}, bad, Tail(ops))
             ELSE Heap(live \ {o.buf},
                       IF o.buf \in live THEN bad ELSE bad \cup {o.buf},
                       Tail(ops))

\* the buffers the slots of a store own
Owned(fbs) ==
    {PixelBufferOf(fbs[i]) : i \in {j \in Slots : fbs[j].pixel_buffer.alloc}}

\* position of the first call in ops that satisfies the test, 0 if none
FirstCall(ops, call, kind) ==
    LET hits == {k \in 1..Len(ops) : ops[k].call = call /\ ops[k].buf[1] = kind}
    IN  IF hits = {} THEN 0 ELSE CHOOSE k \in hits : \A m \in hits : k <= m

\* C21: in any sequence of pipeline runs followed by teardown, every handler
\* frees only buffers that are allocated (so none is freed twice), a run
\* frees its slot's previous buffer before it allocates the replacement,
\* the only buffers still allocated when a handler returns are those the
\* slots own (so every scratch buffer was freed on the path taken), and
\* teardown leaves no buffer allocated.
C21_BuffersFreedOnce ==
    [][last'.op \in {"capture", "exit"} =>
         LET heap == Heap(Owned(captured_fbs), {}, last'.ops)
             free_old == FirstCall(last'.ops, "vfree", "pixel")
             alloc_new == FirstCall(last'.ops, "vmalloc", "pixel")
         IN  /\ heap.bad = {}
             /\ heap.live = Owned(captured_fbs')
             /\ \A k \in 1..Len(last'.ops) :
                    last'.ops[k].call = "vmalloc" =>
                        last'.ops[k].buf \notin Owned(captured_fbs)
             /\ (free_old > 0 /\ alloc_new > 0) => free_old < alloc_new
             /\ (last'.op = "capture" /\ alloc_new > 0) =>
                    ~captured_fbs[current_index].pixel_buffer.alloc
                    \/ free_old > 0
             /\ last'.op = "exit" => Owned(captured_fbs') = {}]_vars

\* teardown after a run replaced a slot's buffer and a tiled run used and
\* freed a scratch buffer: teardown freed every slot's buffer
C21_Witness ==
    /\ last.op = "exit"
    /\ Len(last.ops) = MAX_FB_CAPTURE
    /\ Len(committed) > MAX_FB_CAPTURE
    /\ \E i \in Slots : captured_fbs[i].is_detiled

C23_ConverterWritesInsideBuffer ==
    (last.op = "capture" /\ last.ret = 0 /\ last.ext = 0
        /\ captured_fbs[last.slot].is_detiled) =>
        LET capture == captured_fbs[last.slot]
        IN  \A d \in capture.buffer_size .. (capture.buffer_size + 3) :
                ~StoresTo(d, capture.width, capture.height, capture.pitch,
                          capture.detected_tiling)

(***************************************************************************)
(* Properties of the backends of extract_gem_pixels, checked under         *)
(* UnitSpec.                                                               *)
(***************************************************************************)
\* C24: after the SHMEM method copied n bytes, byte i of the destination is
\* byte i of the object's backing memory for every i < n, also when pages
\* that are not resident were skipped.
C24_PagedPositionsPreserved ==
    (last.op = "extract_bytes" /\ last.bytes.method = "shmem") =>
        \A i \in 0 .. (last.out.copied - 1) : last.bytes.target.bytes[i] = i

\* the store after a pipeline run committed the capture to slot 0
StoreOf(capture) ==
    [fbs |-> [i \in Slots |-> IF i = 0 THEN capture ELSE ZeroCapture],
     index |-> 1, count |-> 1]

\* max_bytes of a call: the size of the buffer the backends copy into
MaxBytes(capture) ==
    IF capture.detected_tiling # INTEL_TILING_NONE THEN RawBufferSize(capture)
    ELSE capture.buffer_size

\* C25: every byte a raw read of the committed frame can return was stored
\* to the final buffer during the run and comes from the source object; no
\* byte that vmalloc left as it was is returned.  Stated of objects at
\* least as large as the frame they back.
C25_NoUninitializedByteRead ==
    (/\ last.op = "extract_bytes"
     /\ last.gem.size >= MaxBytes(last.capture)
     /\ last.gem.dma_buf => last.gem.dma_size >= MaxBytes(last.capture)) =>
        LET frame == CaptureMark(last.out.capture, last.out.ret)
        IN  \A pos \in 0 .. (frame.buffer_size - 1) :
                LET r == drm_fb_raw_read(StoreOf(frame), 1, pos, FALSE)
                IN  r.ret = 1 => last.bytes.pixels.bytes[r.from] >= 0

\* C30: neither backend stores past the end of its destination.  Every
\* memcpy of the SHMEM loop starts where the previous one ended, below
\* max_bytes, and copies min(PAGE_SIZE, max_bytes - copied) bytes, so copied
\* never exceeds max_bytes; the dma-buf method copies exactly
\* min(dma_buf->size, max_bytes); max_bytes is the raw buffer's size
\* height * pitch for a tiled capture and buffer_size for a linear one, and
\* the bytes of the destination at and beyond copied are left as they were.
C30_BackendsStayInside ==
    (last.op \in {"extract", "extract_bytes"} /\ last.out.ret # -ENOMEM) =>
        LET out == last.out
            max_bytes == MaxBytes(last.capture)
            chunks == out.chunks
            method == IF out.ret = -ENODATA THEN "none"
                      ELSE out.tried[Len(out.tried)]
        IN  /\ \A k \in 1 .. Len(chunks) :
                  /\ chunks[k].at = IF k = 1 THEN 0
                                    ELSE chunks[k - 1].at + chunks[k - 1].len
                  /\ chunks[k].at < max_bytes
                  /\ chunks[k].len = Min(PAGE_SIZE, max_bytes - chunks[k].at)
                  /\ chunks[k].at + chunks[k].len <= max_bytes
            /\ method = "shmem" =>
                  /\ chunks # << >>
                  /\ out.copied = chunks[Len(chunks)].at + chunks[Len(chunks)].len
            /\ method = "dma_buf" => out.copied = Min(last.gem.dma_size, max_bytes)
            /\ out.copied <= max_bytes
            /\ last.op = "extract_bytes" =>
                  /\ last.bytes.target.size = max_bytes
                  /\ \A i \in out.copied .. (max_bytes - 1) :
                         last.bytes.target.bytes[i] = Uninitialized

\* the SHMEM loop filled a linear buffer of one page and eight bytes with a
\* whole page and a chunk cut to the eight bytes left
C30_Witness ==
    /\ last.op = "extract_bytes"
    /\ last.capture.fb = FbTwoPages.id
    /\ Len(last.out.chunks) = 2
    /\ last.out.chunks[2].len < PAGE_SIZE
    /\ last.out.copied = last.capture.buffer_size

(***************************************************************************)
(* Properties of the slots' flags, checked under Spec.                     *)
(***************************************************************************)
\* C26: the listing prints as many frames as the count it reports, that is
\* every slot below capture_count is valid, after any sequence of pipeline
\* runs, those that returned -ENOMEM included.
C26_ListedEqualsCount ==
    /\ \A i \in Slots : i < capture_count => captured_fbs[i].valid
    /\ last.op = "show" => Len(last.out.frames) = last.out.count

\* the relations between a slot's flags that hold in every state
SlotFlags(c) ==
    /\ c.is_detiled => (c.has_pixels /\ c.detected_tiling # INTEL_TILING_NONE)
    /\ (c.has_pixels /\ c.detected_tiling # INTEL_TILING_NONE) => c.is_detiled
    /\ c.has_pixels => c.valid
    /\ c.detected_tiling = INTEL_TILING_NONE => ~c.is_detiled

\* C27 as stated: in every state each slot satisfies the relations between
\* its flags, and a slot with has_pixels has an allocated pixel_buffer.
C27_SlotFlags ==
    \A i \in Slots :
        /\ SlotFlags(captured_fbs[i])
        /\ captured_fbs[i].has_pixels => captured_fbs[i].pixel_buffer.alloc

\* C27 amended: the relations between the flags hold in every state; a slot
\* with has_pixels has an allocated pixel_buffer until teardown, which frees
\* the buffers and leaves the flags as they were.
C27_SlotFlagsUntilTeardown ==
    \A i \in Slots :
        /\ SlotFlags(captured_fbs[i])
        /\ (Live /\ captured_fbs[i].has_pixels) => captured_fbs[i].pixel_buffer.alloc
        /\ (~Live) => ~captured_fbs[i].pixel_buffer.alloc

\* a detiled frame, a linear frame with pixel data, a tiled frame without
\* pixel data and a slot left invalid by an -ENOMEM run, side by side
C27_Witness ==
    /\ Live
    /\ \E i \in Slots : captured_fbs[i].is_detiled
    /\ \E i \in Slots : /\ captured_fbs[i].has_pixels
                         /\ captured_fbs[i].detected_tiling = INTEL_TILING_NONE
    /\ \E i \in Slots : /\ captured_fbs[i].valid /\ ~captured_fbs[i].has_pixels
                         /\ captured_fbs[i].detected_tiling # INTEL_TILING_NONE
    /\ \E i \in Slots : ~captured_fbs[i].valid /\ captured_fbs[i].timestamp > 0

\* C28: the reads a client makes on one open file, from offset 0 on and each
\* starting where the previous one ended, copy bytes of one single frame,
\* also when pipeline runs commit between the reads.
C28_SessionReadsOneFrame ==
    (loc["reader"].op = "read" /\ loc["reader"].file.start = 0) =>
        Cardinality(loc["reader"].file.frames) <= 1

NoByteSkipped(geometry, tiling) ==
    /\ geometry.pitch % ClaimTileW(tiling) = 0
    /\ geometry.pitch >= geometry.width * 4
    /\ geometry.height % ClaimTileH(tiling) = 0

\* C31: for every tiling in {X, Y, Yf} and every geometry whose pitch is a
\* multiple of the tile width and at least width * 4 and whose height is a
\* multiple of the tile height, the module's converter skips no byte (it
\* stores to every index of dst), the standalone converter loads only
\* bytes inside src, and the two leave byte-identical destinations.
C31_ConvertersAgree ==
    (last.op = "convert_both" /\ NoByteSkipped(last.in.geometry, last.in.tiling)) =>
        LET size == last.in.geometry.height * last.in.geometry.width * 4
        IN  /\ last.out.ret = 0
            /\ last.out.writes = 0 .. (size - 1)
            /\ last.cli.outside = {}
            /\ last.cli.exit = "EXIT_SUCCESS"
            /\ last.cli.out_raw = last.out.dst.bytes

\* a Y-tiled source two tiles wide, converted by both
C31_Witness ==
    /\ last.op = "convert_both"
    /\ last.in.tiling = INTEL_TILING_Y
    /\ last.in.geometry = Geometry(33, 32, 256)
    /\ last.cli.out_raw = last.out.dst.bytes
    /\ \E d \in DOMAIN last.cli.out_raw : last.cli.out_raw[d] # last.in.junk

====
